---- MODULE Spec2Model ----
(***************************************************************************)
(* cr-SMPS: the dataset aggregate (core/smps_dataset.py), the record and   *)
(* its metadata printing (core/smps_data.py), the record parser and the    *)
(* directory loader (io/reader.py) and the time-range resolver of the      *)
(* heatmap (analysis/plotting/plot_heatmap.py).                            *)
(*                                                                         *)
(* Time.  An instant is [s, us, tz]: whole seconds, microseconds and the   *)
(* key of the zone it carries ("naive" for none).  For a naive instant s   *)
(* counts wall-clock seconds from 2024-01-01 00:00:00; for a zone-aware    *)
(* instant s counts seconds from 2024-01-01 00:00:00 UTC, as pandas keeps  *)
(* aware values in UTC.  All instants lie in the first days of January     *)
(* 2024, where each modelled zone has one fixed UTC offset.                *)
(***************************************************************************)
EXTENDS Integers, Sequences, FiniteSets, TLC

VARIABLES
    smpsdata_list,  \* SMPSDataset.smpsdata_list: the records, in list order
    call,           \* the arguments of the latest plot_heatmap call
    result,         \* what that call computed and how it ended
    holder,         \* the type of the object the smpsdata_list attribute holds
    op,             \* the latest add_SMPSData or sort_by_time call's outcome
    loader,         \* the local variables of a read_from_dir call under way
    parse           \* the latest _SMPSData_from_csv call and what it returned

vars == <<smpsdata_list, call, result, holder, op, loader, parse>>

-----------------------------------------------------------------------------
(* Bounds of the model *)

\* most records add_SMPSData calls put into an aggregate
MaxRecords == 2

\* most entries of a directory given to read_from_dir, subdirectories and
\* what they hold included
MaxEntries == 3

\* most data rows of an export file given to the parser
MaxRows == 2

\* most records of an aggregate that is sorted, where the aggregate is
\* taken alone
MaxSorted == 3

-----------------------------------------------------------------------------
(* Calendar arithmetic *)

\* seconds in a day
Day == 86400

\* pandas.Timestamp.min is 1677-09-21 00:12:43.145224193 and
\* pandas.Timestamp.max is 2262-04-11 23:47:16.854775807, so
\* pd.Timestamp.min.time() is 00:12:43.145224 and
\* pd.Timestamp.max.time() is 23:47:16.854775 (time() drops the nanoseconds).
TimestampMinTimeS == 763
TimestampMinTimeUs == 145224
TimestampMaxTimeS == 85636
TimestampMaxTimeUs == 854775

\* zoneinfo keys the system database resolves, with their UTC offset in
\* seconds in January
ZoneOffset == [UTC |-> 0, America_New_York |-> 0 - 18000]

ZoneKeys == DOMAIN ZoneOffset

\* a key ZoneInfo() does not find
UnknownKey == "Mars_Olympus"

\* a key ZoneInfo() rejects before any lookup: "ZoneInfo keys must refer to
\* subdirectories of TZPATH"
MalformedKey == "../UTC"

Naive(s, us) == [s |-> s, us |-> us, tz |-> "naive"]

\* Timestamp.tz_localize / DatetimeIndex.tz_localize on a naive value: the
\* wall clock reading is kept and the zone attached
tz_localize(t, key) == [s |-> t.s - ZoneOffset[key], us |-> t.us, tz |-> key]

\* tz_convert on an aware value: the instant is kept, the zone replaced
tz_convert(t, key) == [t EXCEPT !.tz = key]

\* wall-clock seconds of an instant in its own zone
Wall(t) == IF t.tz = "naive" THEN t.s ELSE t.s + ZoneOffset[t.tz]

\* Timestamp.date(): the calendar day of the wall-clock reading (day 0 is
\* 2024-01-01)
DateOf(t) == Wall(t) \div Day

\* seconds into the wall-clock day
TimeOfDay(t) == Wall(t) % Day

\* Timestamp.normalize(): wall-clock midnight of the same day, zone kept
normalize(t) ==
    IF t.tz = "naive"
    THEN Naive(DateOf(t) * Day, 0)
    ELSE tz_localize(Naive(DateOf(t) * Day, 0), t.tz)

\* pd.Timestamp.combine(date, time): a naive instant
combine(date, tod_s, tod_us) == Naive(date * Day + tod_s, tod_us)

\* a <= b on two instants of the same awareness
LessEq(a, b) == a.s < b.s \/ (a.s = b.s /\ a.us <= b.us)

\* whether pandas can compare the two (both naive or both aware)
Comparable(a, b) == (a.tz = "naive") <=> (b.tz = "naive")

-----------------------------------------------------------------------------
(* Python values *)

None == [py |-> "NoneType", key |-> ""]

Str(key) == [py |-> "str", key |-> key]

ZoneInfoObj(key) == [py |-> "ZoneInfo", key |-> key]

\* ZoneInfo(x): a str key is looked up, unless it is no normalized relative
\* path, a ValueError; any other argument is a TypeError
ZoneInfo(x) ==
    IF x.py # "str" THEN [exc |-> "TypeError", val |-> None]
    ELSE IF x.key = MalformedKey THEN [exc |-> "ValueError", val |-> None]
    ELSE IF x.key \notin ZoneKeys
    THEN [exc |-> "ZoneInfoNotFoundError", val |-> None]
    ELSE [exc |-> "none", val |-> ZoneInfoObj(x.key)]

-----------------------------------------------------------------------------
(* Instrument files and the record parser *)

\* The export files of the model: the base name and, for the rows both of
\* whose status flags read "Normal Scan", the parsed "DateTime Sample Start"
\* as wall-clock seconds (whole seconds, as the instrument writes them).
\*   A: 01-01 00:00:00, 00:12:43, 00:12:44, 12:00:00,
\*      01-03 23:47:16, 23:47:17, 23:59:59
\*   B: 01-01 21:00:00, 01-02 02:00:00, 01-02 23:50:00, 01-04 00:00:00
\*   C: 01-01 00:00:00, 01-01 21:00:00
Files ==
    { [filename |-> "A_SMPS.csv",
       starts |-> <<0, 763, 764, 43200, 258436, 258437, 259199>>],
      [filename |-> "B_SMPS.csv",
       starts |-> <<75600, 93600, 172200, 259200>>],
      [filename |-> "C_SMPS.csv",
       starts |-> <<0, 75600>>] }

\* Export files of a scan or two each, for the aggregate taken alone:
\*   D: 01-01 00:00:00, 00:05:00      E: 01-01 00:05:00, 00:10:00
\*   F: 01-01 00:20:00                G: 01-01 00:00:00, 00:30:00
\*   H: 01-01 00:12:00, 00:15:00
ShortFiles ==
    { [filename |-> "D_SMPS.csv", starts |-> <<0, 300>>],
      [filename |-> "E_SMPS.csv", starts |-> <<300, 600>>],
      [filename |-> "F_SMPS.csv", starts |-> <<1200>>],
      [filename |-> "G_SMPS.csv", starts |-> <<0, 1800>>],
      [filename |-> "H_SMPS.csv", starts |-> <<720, 900>>] }

\* the time_zone arguments given to the parser
ParserZoneArgs == {None, Str("UTC"), Str("America_New_York"), Str(UnknownKey)}

RECURSIVE MinOf(_)
\* DatetimeIndex.min()
MinOf(idx) ==
    IF Len(idx) = 1 THEN idx[1]
    ELSE LET m == MinOf(Tail(idx))
         IN IF LessEq(idx[1], m) THEN idx[1] ELSE m

RECURSIVE MaxOf(_)
\* DatetimeIndex.max()
MaxOf(idx) ==
    IF Len(idx) = 1 THEN idx[1]
    ELSE LET m == MaxOf(Tail(idx))
         IN IF LessEq(m, idx[1]) THEN idx[1] ELSE m

\* the parser with the tz_localize of the timestamp column lost: the zone
\* found is kept in time_zone and the index left naive
SMPSData_from_csv_IndexLeftNaive(f, time_zone) ==
    LET found == time_zone # None /\ ZoneInfo(time_zone).exc = "none"
        index == [i \in 1..Len(f.starts) |-> Naive(f.starts[i], 0)]
    IN [filename |-> f.filename,
        time_zone |-> IF found THEN ZoneInfo(time_zone).val ELSE None,
        index |-> index,
        metadata |-> [Start_Time |-> MinOf(index),
                      End_Time |-> MaxOf(index),
                      Number_of_Samples |-> Len(index)]]

\* _SMPSData_from_csv: the row index, the time zone and the derived metadata
\* of the record parsed from file f with the given time_zone argument
SMPSData_from_csv(f, time_zone) ==
    LET found == time_zone # None /\ ZoneInfo(time_zone).exc = "none"
        index == [i \in 1..Len(f.starts) |->
                    IF found
                    THEN tz_localize(Naive(f.starts[i], 0), time_zone.key)
                    ELSE Naive(f.starts[i], 0)]
    IN [filename |-> f.filename,
        time_zone |-> IF found THEN ZoneInfo(time_zone).val ELSE None,
        index |-> index,
        metadata |-> [Start_Time |-> MinOf(index),
                      End_Time |-> MaxOf(index),
                      Number_of_Samples |-> Len(index)]]

\* the records the parser returns
ParsedRecords ==
    { SMPSData_from_csv(f, z) : f \in Files, z \in ParserZoneArgs }

-----------------------------------------------------------------------------
(* Time-zone reconciliation of _plot_heatmap *)

\* a returned value, or the exception raised instead
Return(v) == [exc |-> "none", val |-> v]

Raise(e) == [exc |-> e, val |-> 0]

\* check_SMPSDataset_time_zone with the last test lost: an aggregate that is
\* not all zoned is reported as having no zone at all
check_SMPSDataset_time_zone_NoMixedState(dataset) ==
    LET zones == [i \in 1..Len(dataset) |-> dataset[i].time_zone]
        all_have_zone == \A i \in 1..Len(zones) : zones[i] # None
    IN IF all_have_zone
       THEN IF Len(zones) = 0
            THEN Raise("IndexError")
            ELSE IF \A i \in 1..Len(zones) : zones[i] = zones[1]
                 THEN Return(2)
                 ELSE Return(1)
       ELSE Return(0 - 1)

\* check_SMPSDataset_time_zone: 2 all the same zone, 1 zones differing,
\* -1 no record has a zone, 0 some have one and some do not.  With every
\* record zoned (also when there is no record) zones[0] is read.
check_SMPSDataset_time_zone(dataset) ==
    LET zones == [i \in 1..Len(dataset) |-> dataset[i].time_zone]
        all_have_zone == \A i \in 1..Len(zones) : zones[i] # None
        all_no_zone == \A i \in 1..Len(zones) : zones[i] = None
    IN IF all_have_zone
       THEN IF Len(zones) = 0
            THEN Raise("IndexError")
            ELSE IF \A i \in 1..Len(zones) : zones[i] = zones[1]
                 THEN Return(2)
                 ELSE Return(1)
       ELSE IF all_no_zone THEN Return(0 - 1) ELSE Return(0)

\* the reconciliation adopting the first record's zone whenever every
\* record is zoned (time_zone_status >= 1 for == 2)
ReconcileTimeZone_AdoptFirstZone(dataset, tzarg) ==
    LET st == check_SMPSDataset_time_zone(dataset)
    IN IF st.exc # "none" THEN [exc |-> st.exc, val |-> None]
       ELSE IF st.val = 0
       THEN [exc |-> "ValueError: some have a time zone", val |-> None]
       ELSE IF tzarg # None
       THEN IF st.val < 0
            THEN [exc |-> "ValueError: output_time_zone set, no time zone",
                  val |-> None]
            ELSE [exc |-> "none", val |-> tzarg]
       ELSE IF st.val >= 1
       THEN [exc |-> "none", val |-> dataset[1].time_zone]
       ELSE [exc |-> "none", val |-> None]

\* the reconciliation without the test of a zone requested for naive records
ReconcileTimeZone_LocalizeNaive(dataset, tzarg) ==
    LET st == check_SMPSDataset_time_zone(dataset)
    IN IF st.exc # "none" THEN [exc |-> st.exc, val |-> None]
       ELSE IF st.val = 0
       THEN [exc |-> "ValueError: some have a time zone", val |-> None]
       ELSE IF tzarg # None
       THEN [exc |-> "none", val |-> tzarg]
       ELSE IF st.val = 2
       THEN [exc |-> "none", val |-> dataset[1].time_zone]
       ELSE IF st.val = 1
       THEN [exc |-> "ValueError: different time zones", val |-> None]
       ELSE [exc |-> "none", val |-> None]

\* Lines 100-126: the output zone in effect (val), or the error raised.
\* tzarg is the caller's output_time_zone.
ReconcileTimeZone(dataset, tzarg) ==
    LET st == check_SMPSDataset_time_zone(dataset)
    IN IF st.exc # "none" THEN [exc |-> st.exc, val |-> None]
       ELSE IF st.val = 0
       THEN [exc |-> "ValueError: some have a time zone", val |-> None]
       ELSE IF tzarg # None
       THEN IF st.val < 0
            THEN [exc |-> "ValueError: output_time_zone set, no time zone",
                  val |-> None]
            ELSE [exc |-> "none", val |-> tzarg]
       ELSE IF st.val = 2
       THEN [exc |-> "none", val |-> dataset[1].time_zone]
       ELSE IF st.val = 1
       THEN [exc |-> "ValueError: different time zones", val |-> None]
       ELSE [exc |-> "none", val |-> None]

\* the errors of the reconciliation
ZoneErrors ==
    { "ValueError: some have a time zone",
      "ValueError: output_time_zone set, no time zone",
      "ValueError: different time zones" }

-----------------------------------------------------------------------------
(* Time-range selectors *)

\* A time_range argument: its Python type and the instants it holds, each
\* the naive pandas.Timestamp that pd.to_datetime makes of it.  A str or
\* DateOffset holding none is one pd.to_datetime cannot convert.
Selector(py, elems) == [py |-> py, elems |-> elems]

NoRange == Selector("NoneType", <<>>)

\* 2024-01-01 + d days, h hours: a date (h = 0) or a date-time
At(d, h) == Naive(d * Day + h * 3600, 0)

TimeRanges ==
    { NoRange,
      Selector("str", <<At(0, 0)>>),
      Selector("str", <<At(1, 0)>>),
      Selector("str", <<At(2, 12)>>),
      Selector("str", <<>>),
      Selector("Timestamp", <<At(2, 0)>>),
      Selector("datetime", <<At(0, 12)>>),
      Selector("date", <<At(0, 0)>>),
      Selector("DateOffset", <<>>),
      Selector("int", <<>>),
      Selector("tuple", <<At(0, 0), At(2, 0)>>),
      Selector("tuple", <<At(0, 0), At(0, 0)>>),
      Selector("tuple", <<At(2, 0), At(0, 0)>>),
      Selector("tuple", <<At(0, 6), At(0, 18)>>),
      Selector("tuple", <<At(1, 12), At(1, 6)>>),
      Selector("list", <<At(1, 0), At(2, 12)>>),
      Selector("list", <<At(0, 0), At(1, 0)>>),
      Selector("list", <<At(1, 0)>>),
      Selector("tuple", <<At(0, 0), At(1, 0), At(2, 0)>>),
      Selector("tuple", <<>>),
      Selector("tuple", <<At(0, 6), At(1, 6)>>),
      Selector("tuple", <<At(0, 0), At(11, 0)>>),
      Selector("tuple", <<At(0, 6), At(12, 6)>>),
      Selector("tuple", <<At(0, 6), At(13, 0)>>) }

\* the output_time_zone arguments: none, a zone name, a name the zone
\* database does not hold, a tzinfo object
OutputZoneArgs ==
    { None, Str("UTC"), Str("America_New_York"), Str(UnknownKey),
      ZoneInfoObj("UTC") }

\* isinstance(time_range, (str, pd.Timestamp, datetime.datetime,
\* pd.DateOffset)) or hasattr(time_range, "date"): of the types here only
\* Timestamp and datetime have a date attribute
IsSingleDate(time_range) ==
    \/ time_range.py \in {"str", "Timestamp", "datetime", "DateOffset"}
    \/ time_range.py \in {"Timestamp", "datetime"}

\* isinstance(time_range, (tuple, list)) and len(time_range) == 2
IsRange(time_range) ==
    time_range.py \in {"tuple", "list"} /\ Len(time_range.elems) = 2

\* what pd.to_datetime raises on a single selector, "none" if it converts
ToDatetimeError(time_range) ==
    IF Len(time_range.elems) > 0 THEN "none"
    ELSE IF time_range.py = "str" THEN "ValueError: unknown datetime string"
    ELSE "TypeError"

\* x.tz_localize(output_time_zone) resolves a zone given by name
LocalizeError(tz) ==
    IF tz.py = "str" /\ tz.key \notin ZoneKeys
    THEN "UnknownTimeZoneError"
    ELSE "none"

\* (hour, minute, second, microsecond) == (0, 0, 0, 0)
IsMidnight(t) == TimeOfDay(t) = 0 /\ t.us = 0

-----------------------------------------------------------------------------
(* Selector resolution of _plot_heatmap (lines 137-236) *)

\* pd.Timestamp.combine(date, pd.Timestamp.min.time())
DayStart(date) == combine(date, TimestampMinTimeS, TimestampMinTimeUs)

\* pd.Timestamp.combine(date, pd.Timestamp.max.time())
DayEnd(date) == combine(date, TimestampMaxTimeS, TimestampMaxTimeUs)

\* the file name: its form and the date or time fields formatted into it
FileName(stem, a, b) == [stem |-> stem, a |-> a, b |-> b]

\* what the resolution leaves in its local variables, or the error raised
Resolved(branch, xlim, dt, fname) ==
    [exc |-> "none", branch |-> branch, xlim |-> xlim, dt |-> dt,
     fname |-> fname]

ResolveError(e) ==
    [exc |-> e, branch |-> "", xlim |-> <<>>, dt |-> Naive(0, 0),
     fname |-> FileName("", 0, 0)]

\* Lines 138-147: time_range is None
ResolveAll == Resolved("all", <<>>, Naive(0, 0), FileName("all", 0, 0))

\* Lines 150-172: a single date.  tz is the output zone in effect.
ResolveSingle(time_range, tz) ==
    IF ToDatetimeError(time_range) # "none"
    THEN ResolveError(ToDatetimeError(time_range))
    ELSE IF tz # None /\ LocalizeError(tz) # "none"
    THEN ResolveError(LocalizeError(tz))
    ELSE LET dt0 == time_range.elems[1]
             dt == IF tz # None THEN tz_localize(dt0, tz.key) ELSE dt0
             date == DateOf(dt)
             start == IF tz # None
                      THEN tz_localize(DayStart(date), tz.key)
                      ELSE DayStart(date)
             end == IF tz # None
                    THEN tz_localize(DayEnd(date), tz.key)
                    ELSE DayEnd(date)
         IN Resolved("single", <<start, end>>, dt,
                     FileName("date", date, date))

\* Lines 186-220: a (start, end) pair
ResolveRange(time_range, tz) ==
    LET start0 == time_range.elems[1]
        end0 == time_range.elems[2]
        dates_only == IsMidnight(start0) /\ IsMidnight(end0)
        start1 == IF dates_only THEN DayStart(DateOf(start0)) ELSE start0
        end1 == IF dates_only THEN DayEnd(DateOf(end0)) ELSE end0
        fname == IF dates_only
                 THEN FileName("dates", DateOf(start1), DateOf(end1))
                 ELSE FileName("datetimes", start1.s, end1.s)
    IN IF LessEq(end0, start0)
       THEN ResolveError("ValueError: start must be earlier than end")
       ELSE IF tz # None /\ LocalizeError(tz) # "none"
       THEN ResolveError(LocalizeError(tz))
       ELSE LET start == IF tz # None
                         THEN tz_localize(start1, tz.key) ELSE start1
                end == IF tz # None
                       THEN tz_localize(end1, tz.key) ELSE end1
            IN Resolved("range", <<start, end>>, Naive(0, 0), fname)

\* Lines 137-236: the branch taken, first match first
Resolve(time_range, tz) ==
    IF time_range = NoRange THEN ResolveAll
    ELSE IF IsSingleDate(time_range) THEN ResolveSingle(time_range, tz)
    ELSE IF IsRange(time_range) THEN ResolveRange(time_range, tz)
    ELSE ResolveError("ValueError: time_range must be None, date or pair")

\* the errors of the selector resolution that the code raises itself
SelectorErrors ==
    { "ValueError: start must be earlier than end",
      "ValueError: time_range must be None, date or pair" }

-----------------------------------------------------------------------------
(* Row filtering *)

\* the index value moved into the output zone: localized if naive,
\* converted if aware; untouched with no output zone
AdjustIndex(t, tz) ==
    IF tz = None THEN t
    ELSE IF t.tz = "naive" THEN tz_localize(t, tz.key)
    ELSE tz_convert(t, tz.key)

\* the single-date verdict with the row left as it is: idx == dt.normalize()
MaskSingle_NoNormalize(t, dt, tz) ==
    LET x == AdjustIndex(t, tz)
        d == normalize(dt)
    IN Comparable(x, d) /\ x.s = d.s /\ x.us = d.us

\* idx.normalize() == dt.normalize(), one row: aware and naive values
\* compare unequal
MaskSingle(t, dt, tz) ==
    LET x == normalize(AdjustIndex(t, tz))
        d == normalize(dt)
    IN Comparable(x, d) /\ x.s = d.s /\ x.us = d.us

\* (idx_dt >= start) & (idx_dt <= end), one row
MaskRange(t, start, end, tz) ==
    LET x == AdjustIndex(t, tz)
    IN LessEq(start, x) /\ LessEq(x, end)

\* mask_func(idx) of the branch taken: one verdict per row, or the
\* TypeError of ordering aware against naive values
mask_func(res, tz, idx) ==
    IF res.branch = "all"
    THEN Return([i \in 1..Len(idx) |-> TRUE])
    ELSE IF res.branch = "single"
    THEN Return([i \in 1..Len(idx) |-> MaskSingle(idx[i], res.dt, tz)])
    ELSE IF \E i \in 1..Len(idx) :
                ~Comparable(AdjustIndex(idx[i], tz), res.xlim[1])
    THEN Raise("TypeError")
    ELSE Return([i \in 1..Len(idx) |->
                    MaskRange(idx[i], res.xlim[1], res.xlim[2], tz)])

-----------------------------------------------------------------------------
(* _plot_heatmap *)

\* (b - a).days: the whole days of the difference of two instants of the
\* same awareness, rounded down
TimedeltaDays(a, b) ==
    (b.s - a.s - (IF b.us < a.us THEN 1 ELSE 0)) \div Day

\* (xlim[1] - xlim[0]).days
total_days_NoPlusOne(xlim) == TimedeltaDays(xlim[1], xlim[2])

\* total_days = (xlim[1] - xlim[0]).days + 1
total_days(xlim) == TimedeltaDays(xlim[1], xlim[2]) + 1

\* Lines 305-362, the locator of the major ticks: HourLocator ("hourly"),
\* DayLocator with minor HourLocator(byhour=[6, 12, 18]) ("daily"),
\* AutoDateLocator(maxticks=10) with "%Y-%m-%d" labels ("coarse"), and with
\* xlim None AutoDateLocator alone ("auto")
TickLocator(xlim) ==
    IF xlim = <<>> THEN "auto"
    ELSE IF total_days(xlim) <= 1 THEN "hourly"
    ELSE IF 1 < total_days(xlim) /\ total_days(xlim) <= 12 THEN "daily"
    ELSE "coarse"

\* How a call ended and what it had computed by then: the exception ("none"
\* when it returned), the stage it reached, the output zone in effect, the
\* branch, xlim, dt and fname of the resolution, mask_func's verdicts, one
\* sequence per record, and the tick locator set ("" before that).
Outcome(exc, at, tz, res, masks) ==
    [exc |-> exc, at |-> at, tz |-> tz, branch |-> res.branch,
     xlim |-> res.xlim, dt |-> res.dt, fname |-> res.fname, masks |-> masks,
     ticks |-> IF at = "returned" THEN TickLocator(res.xlim) ELSE ""]

\* tz=ZoneInfo(output_time_zone) if output_time_zone else None, the argument
\* of the date formatters
FormatterZone(tz) == IF tz # None THEN ZoneInfo(tz) ELSE Return(None)

\* _plot_heatmap(ax, dataset, time_range, output_time_zone)
plot_heatmap(dataset, time_range, output_time_zone) ==
    LET rec == ReconcileTimeZone(dataset, output_time_zone)
        tz == rec.val
        res == Resolve(time_range, tz)
        masks == [i \in 1..Len(dataset) |->
                    mask_func(res, tz, dataset[i].index)]
        fmt == FormatterZone(tz)
    IN IF rec.exc # "none"
       THEN Outcome(rec.exc, "reconcile", None, ResolveError(""), <<>>)
       ELSE IF res.exc # "none"
       THEN Outcome(res.exc, "resolve", tz, ResolveError(""), <<>>)
       ELSE IF \E i \in 1..Len(dataset) : masks[i].exc # "none"
       THEN Outcome("TypeError", "filter", tz, res, <<>>)
       ELSE IF fmt.exc # "none"
       THEN Outcome(fmt.exc, "format", tz, res,
                    [i \in 1..Len(dataset) |-> masks[i].val])
       ELSE Outcome("none", "returned", tz, res,
                    [i \in 1..Len(dataset) |-> masks[i].val])

-----------------------------------------------------------------------------
(* SMPSDataset.sort_by_time (smps_dataset.py lines 57-84) *)

\* a < b on two instants of the same awareness
Less(a, b) == ~LessEq(b, a)

StartTime(x) == x.metadata.Start_Time

EndTime(x) == x.metadata.End_Time

\* whether list.sort can order the keys: ordering a zone-aware Timestamp
\* against a naive one raises TypeError, and a sort of keys of both kinds
\* compares two of them
Sortable(list) ==
    \A i, j \in 1..Len(list) : Comparable(StartTime(list[i]), StartTime(list[j]))

RECURSIVE Insert_BeforeEqual(_, _)
\* x placed before the first record that starts at the same time or later
Insert_BeforeEqual(x, list) ==
    IF list = <<>> THEN <<x>>
    ELSE IF LessEq(StartTime(x), StartTime(Head(list))) THEN <<x>> \o list
    ELSE <<Head(list)>> \o Insert_BeforeEqual(x, Tail(list))

RECURSIVE Insert(_, _)
\* x placed into an ordered list before the first record that starts later
Insert(x, list) ==
    IF list = <<>> THEN <<x>>
    ELSE IF Less(StartTime(x), StartTime(Head(list))) THEN <<x>> \o list
    ELSE <<Head(list)>> \o Insert(x, Tail(list))

RECURSIVE list_sort(_)
\* list.sort(key=lambda x: x.metadata["Start Time"]): ascending and stable
list_sort(list) ==
    IF list = <<>> THEN <<>>
    ELSE Insert(list[Len(list)], list_sort(SubSeq(list, 1, Len(list) - 1)))

\* prev_end > curr_start
OverlapsStrictly(prev, curr) == Less(StartTime(curr), EndTime(prev))

\* if prev_end >= curr_start
Overlaps(prev, curr) == LessEq(StartTime(curr), EndTime(prev))

\* the warning printed for one adjacent pair: the two file names
Warning(prev, curr) == [prev |-> prev.filename, curr |-> curr.filename]

RECURSIVE OverlapWarnings(_)
\* for i in range(1, len(self)): the warnings printed, in order
OverlapWarnings(list) ==
    IF Len(list) < 2 THEN <<>>
    ELSE LET n == Len(list)
             rest == OverlapWarnings(SubSeq(list, 1, n - 1))
         IN IF Overlaps(list[n - 1], list[n])
            THEN Append(rest, Warning(list[n - 1], list[n]))
            ELSE rest

\* the outcome of a call of a method of the aggregate or of one of its
\* records: the exception ("none" when it returned), the list before and
\* after it and the warnings or lines printed
Done(name, exc, before, after, warnings) ==
    [name |-> name, exc |-> exc, before |-> before, after |-> after,
     warnings |-> warnings]

\* self.smpsdata_list.append(smps_data): only a list has append
append(list, type, smps_data) ==
    IF type # "list"
    THEN Done("add_SMPSData", "AttributeError", list, list, <<>>)
    ELSE Done("add_SMPSData", "none", list, Append(list, smps_data), <<>>)

\* sort_by_time() on an aggregate whose smpsdata_list attribute holds an
\* object of the given type around the records of list.  An SMPSDataset
\* has __len__ and __getitem__ but no sort.  A TypeError of the sort leaves
\* a list of up to three records in the order it had: the comparison that
\* raises is made before any record is moved.
sort_by_time(list, type) ==
    IF Len(list) < 2
    THEN Done("sort_by_time", "none", list, list, <<>>)
    ELSE IF type # "list"
    THEN Done("sort_by_time", "AttributeError", list, list, <<>>)
    ELSE IF ~Sortable(list)
    THEN Done("sort_by_time", "TypeError", list, list, <<>>)
    ELSE Done("sort_by_time", "none", list, list_sort(list),
              OverlapWarnings(list_sort(list)))

-----------------------------------------------------------------------------
(* Printing metadata (smps_data.py lines 56-98, smps_dataset.py 86-94) *)

\* the metadata dict of a record the parser returned, by its keys
MetadataDict(smps_data) ==
    ("Start Time" :> smps_data.metadata.Start_Time)
        @@ ("End Time" :> smps_data.metadata.End_Time)
        @@ ("Number of Samples" :> smps_data.metadata.Number_of_Samples)

\* a keys argument: a str, a list or a tuple of strs, or None
Keys(py, elems) == [py |-> py, elems |-> elems]

TimeRangeKeys == <<"Start Time", "End Time", "Number of Samples">>

\* the keys arguments of the model; "Comment" is a key no record has
KeysArgs ==
    { Keys("NoneType", <<>>), Keys("list", <<>>),
      Keys("str", <<"Start Time">>), Keys("str", <<"Comment">>),
      Keys("list", TimeRangeKeys), Keys("list", <<"Start Time", "Comment">>),
      Keys("tuple", <<"End Time">>), Keys("tuple", <<"Comment">>) }

\* print(f"{k}: {self.metadata[k]}")
ValueLine(k, v) == [key |-> k, found |-> TRUE, value |-> v]

\* print(f"Metadata '{k}' is not found."); the value slot is not printed
NotFoundLine(k) == [key |-> k, found |-> FALSE, value |-> 0]

\* the line printed for key k
KeyLine(metadata, k) ==
    IF k \in DOMAIN metadata THEN ValueLine(k, metadata[k])
    ELSE NotFoundLine(k)

\* the value of (list, tuple) and all(isinstance(k, str) for k in keys):
\* the tuple of the two types is true, so the value is that of all(...),
\* a bool; every key of the model is a str
classinfo_OfKeys(keys) == TRUE

\* isinstance(keys, classinfo): a classinfo that is a type or a tuple of
\* types gives the answer, a bool is a TypeError
isinstance_ListOrTuple(keys, classinfo) ==
    IF classinfo \in BOOLEAN THEN Raise("TypeError")
    ELSE Return(keys.py \in classinfo)

\* what a call printed and the exception that ended it ("none")
Printed(lines, exc) == [lines |-> lines, exc |-> exc]

\* SMPSData.print_metadata(keys) on a record with the given metadata, which
\* is never None.  Empty keys and None print every entry in the order the
\* parser entered them: Start Time, End Time, Number of Samples.
print_metadata(metadata, keys) ==
    IF keys.elems # <<>>
    THEN IF keys.py = "str"
         THEN Printed(<<KeyLine(metadata, keys.elems[1])>>, "none")
         ELSE LET test == isinstance_ListOrTuple(keys, classinfo_OfKeys(keys))
              IN IF test.exc # "none" THEN Printed(<<>>, test.exc)
                 ELSE IF test.val
                 THEN Printed([i \in 1..Len(keys.elems) |->
                                  KeyLine(metadata, keys.elems[i])], "none")
                 ELSE Printed(<<>>, "none")
    ELSE Printed([i \in 1..Len(TimeRangeKeys) |->
                     ValueLine(TimeRangeKeys[i], metadata[TimeRangeKeys[i]])],
                 "none")

\* print(f"File {i}: {smps_data.filename}"), after the line of dashes
FileLine(i, smps_data) ==
    [key |-> "File", found |-> TRUE, value |-> <<i, smps_data.filename>>]

RECURSIVE print_time_range_from(_, _)
\* the for loop of print_time_range from record i on: an exception of
\* print_metadata ends it
print_time_range_from(list, i) ==
    IF i > Len(list) THEN Printed(<<>>, "none")
    ELSE LET one == print_metadata(MetadataDict(list[i]),
                                   Keys("list", TimeRangeKeys))
             head == <<FileLine(i, list[i])>> \o one.lines
         IN IF one.exc # "none" THEN Printed(head, one.exc)
            ELSE LET rest == print_time_range_from(list, i + 1)
                 IN Printed(head \o rest.lines, rest.exc)

\* SMPSDataset.print_time_range().  The loop runs over a list and over an
\* SMPSDataset alike, which has __len__ and __getitem__.
print_time_range(list) == print_time_range_from(list, 1)

-----------------------------------------------------------------------------
(* The directory loader (reader.py lines 193-287) *)

\* A directory entry: the characters of its name, whether it is a file or a
\* directory, and the subdirectory it lies in ("" when it lies directly
\* inside the directory given).
Entry(chars, kind, parent) ==
    [chars |-> chars, kind |-> kind, parent |-> parent]

SMPS == <<"S", "M", "P", "S">>

DotCsv == <<".", "c", "s", "v">>

\* The entries directories are made of: the three exports of Files; an
\* export without the status columns (A_SMPS2.csv); a hidden file
\* (.A_SMPS.csv); notes.csv, B_SMPS.txt and b_smps.csv; a directory named
\* old_SMPS.csv; the file sub/B_SMPS.csv of a subdirectory.
DirEntries ==
    { Entry(<<"A", "_">> \o SMPS \o DotCsv, "file", ""),
      Entry(<<"B", "_">> \o SMPS \o DotCsv, "file", ""),
      Entry(<<"C", "_">> \o SMPS \o DotCsv, "file", ""),
      Entry(<<"A", "_">> \o SMPS \o <<"2">> \o DotCsv, "file", ""),
      Entry(<<".", "A", "_">> \o SMPS \o DotCsv, "file", ""),
      Entry(<<"n", "o", "t", "e", "s">> \o DotCsv, "file", ""),
      Entry(<<"B", "_">> \o SMPS \o <<".", "t", "x", "t">>, "file", ""),
      Entry(<<"b", "_", "s", "m", "p", "s">> \o DotCsv, "file", ""),
      Entry(<<"o", "l", "d", "_">> \o SMPS \o DotCsv, "dir", ""),
      Entry(<<"B", "_">> \o SMPS \o DotCsv, "file", "sub") }

\* the directories given to the loader
Directories == { dir \in SUBSET DirEntries : Cardinality(dir) <= MaxEntries }

RECURSIVE Join(_)
\* os.path.basename(fname): the name as a str
Join(chars) == IF chars = <<>> THEN "" ELSE Head(chars) \o Join(Tail(chars))

\* the code point of a character, by which str values are ordered
Ord ==
    [c \in {".", "2", "A", "B", "C", "M", "P", "S", "_", "b", "c", "d", "e",
            "l", "m", "n", "o", "p", "s", "t", "v", "x"} |->
        CASE c = "." -> 46 [] c = "2" -> 50 [] c = "A" -> 65 [] c = "B" -> 66
          [] c = "C" -> 67 [] c = "M" -> 77 [] c = "P" -> 80 [] c = "S" -> 83
          [] c = "_" -> 95 [] c = "b" -> 98 [] c = "c" -> 99 [] c = "d" -> 100
          [] c = "e" -> 101 [] c = "l" -> 108 [] c = "m" -> 109
          [] c = "n" -> 110 [] c = "o" -> 111 [] c = "p" -> 112
          [] c = "s" -> 115 [] c = "t" -> 116 [] c = "v" -> 118
          [] c = "x" -> 120]

RECURSIVE StrLess(_, _)
\* a < b on two str values: by code point, a proper prefix first
StrLess(a, b) ==
    IF b = <<>> THEN FALSE
    ELSE IF a = <<>> THEN TRUE
    ELSE IF Head(a) # Head(b) THEN Ord[Head(a)] < Ord[Head(b)]
    ELSE StrLess(Tail(a), Tail(b))

\* fnmatch(name, "*SMPS*.csv"): "SMPS" somewhere and ".csv" at the end,
\* after it
fnmatch(chars) ==
    \E i \in 1..Len(chars) - 7 :
        /\ SubSeq(chars, i, i + 3) = SMPS
        /\ SubSeq(chars, Len(chars) - 3, Len(chars)) = DotCsv

\* the pattern matched against every entry, hidden ones too
glob_WithHidden(dir) == { e \in dir : e.parent = "" /\ fnmatch(e.chars) }

\* glob.glob(f"{dir_path}*SMPS*.csv"): the entries directly inside dir_path,
\* files or directories, whose name matches; a pattern that does not begin
\* with a dot matches no name that does
glob(dir) ==
    { e \in dir : e.parent = "" /\ e.chars[1] # "." /\ fnmatch(e.chars) }

RECURSIVE sort(_)
\* csv_filenames.sort(): the paths share dir_path, so the names decide
sort(entries) ==
    IF entries = {} THEN <<>>
    ELSE LET first == CHOOSE e \in entries :
                          \A o \in entries \ {e} : StrLess(e.chars, o.chars)
         IN <<first>> \o sort(entries \ {first})

\* _SMPSData_from_csv(file_path, time_zone=time_zone) on an entry the glob
\* returned: pd.read_csv cannot open a directory, and a table without the
\* "Detector Status" column is a KeyError
ParseEntry(e, time_zone) ==
    IF e.kind = "dir" THEN Raise("IsADirectoryError")
    ELSE IF \E f \in Files : f.filename = Join(e.chars)
    THEN Return(SMPSData_from_csv(
                    CHOOSE f \in Files : f.filename = Join(e.chars),
                    time_zone))
    ELSE Raise("KeyError")

\* The loader's local variables: where it stands ("idle" when no call is
\* under way, "loop" in the for loop, "returned", "raised"), the directory
\* and time_zone given, the sorted csv_filenames not yet parsed, the
\* SMPSData_list built so far, the names of the entries the parser was
\* called on, in call order, and the exception that ended the call.
Loader(pc, dir, time_zone, csv_filenames, SMPSData_list, parsed, exc) ==
    [pc |-> pc, dir |-> dir, time_zone |-> time_zone,
     csv_filenames |-> csv_filenames, SMPSData_list |-> SMPSData_list,
     parsed |-> parsed, exc |-> exc]

IdleLoader == Loader("idle", {}, None, <<>>, <<>>, <<>>, "none")

-----------------------------------------------------------------------------
(* The record parser on whole files (reader.py lines 12-190) *)

NormalScan == "Normal Scan"

PCLabel == "Particle Concentration by Midpoint (nm)"

RCLabel == "Raw Concentration by Midpoint (nm)"

RawDataTime == "Raw Data - Time (s)"

DateTimeColumn == "DateTime Sample Start"

\* The kinds of data row: the two status flags, "Lower Size (nm)" and
\* "Upper Size (nm)" in tenths of a nanometre, and the parsed "DateTime
\* Sample Start" in wall-clock seconds, which the position of the row sets.
RowKinds ==
    { [detector |-> d, classifier |-> c, lower |-> b[1], upper |-> b[2],
       start |-> 0] :
        d \in {NormalScan, "Error"}, c \in {NormalScan, "Error"},
        b \in {<<100, 300>>, <<150, 400>>} }

\* the data rows of a file: one scan every five minutes, at least one of
\* them a normal scan
RowSeqs ==
    { rows \in UNION { [1..n -> RowKinds] : n \in 1..MaxRows } :
        /\ \A i \in 1..Len(rows) : rows[i].start = 0
        /\ \E i \in 1..Len(rows) :
              rows[i].detector = NormalScan /\ rows[i].classifier = NormalScan }

\* the names of header line 53 ahead of the diameters
ScanColumns ==
    << "Sample #", DateTimeColumn, "Detector Status", "Classifier Errors",
       "Lower Size (nm)", "Upper Size (nm)" >>

\* the diameter midpoints, in ascending order as the instrument writes them
DiameterLabels == <<"10", "20", "30", "40">>

\* the names pandas gives the same midpoints where the raw concentration
\* block repeats them
RawLabels == <<"10.1", "20.1", "30.1", "40.1">>

\* float(col), in tenths; a name outside the domain is a ValueError
float ==
    [l \in {"10", "20", "30", "40", "10.1", "20.1", "30.1", "40.1"} |->
        CASE l = "10" -> 100 [] l = "20" -> 200 [] l = "30" -> 300
          [] l = "40" -> 400 [] l = "10.1" -> 101 [] l = "20.1" -> 201
          [] l = "30.1" -> 301 [] l = "40.1" -> 401]

\* line 52 over the given columns: blank but for the two block labels, each
\* above the first column of its block (0 for a label the line lacks)
Line52(columns, pc, rc) ==
    [i \in 1..Len(columns) |->
        IF i = pc THEN PCLabel ELSE IF i = rc THEN RCLabel ELSE ""]

Layout(columns, pc, rc) ==
    [columns |-> columns, line52 |-> Line52(columns, pc, rc)]

\* The header lines 52 and 53 of the model: with a raw concentration block;
\* with "Raw Data - Time (s)" columns; with neither (the "new raw data
\* format"); and without the particle concentration label.
Layouts ==
    LET first == Len(ScanColumns) + 1
        after == Len(ScanColumns) + Len(DiameterLabels) + 1
    IN { Layout(ScanColumns \o DiameterLabels \o RawLabels, first, after),
         Layout(ScanColumns \o DiameterLabels
                    \o <<RawDataTime, "Raw Data - Counts">>, first, 0),
         Layout(ScanColumns \o DiameterLabels, first, 0),
         Layout(ScanColumns \o DiameterLabels \o RawLabels, 0, after) }

\* the first lines of the file as key and value of each
HeaderBlocks ==
    { << [key |-> "Instrument Model", value |-> 3938] >>,
      << [key |-> "Instrument Model", value |-> 3938],
         [key |-> "Number of Samples", value |-> 999] >> }

\* the export files given to the parser
Csvs ==
    { [filename |-> "A_SMPS.csv",
       rows |-> [i \in 1..Len(rows) |->
                    [rows[i] EXCEPT !.start = (i - 1) * 300]],
       columns |-> layout.columns, line52 |-> layout.line52,
       header |-> header] :
        rows \in RowSeqs, layout \in Layouts, header \in HeaderBlocks }

\* the time_zone arguments given to the parser on whole files
TimeZoneArgs == ParserZoneArgs \cup {Str(MalformedKey)}

\* list.index(x) counted from 0, -1 where Python raises ValueError
index(list, x) ==
    IF \E i \in 1..Len(list) : list[i] = x
    THEN (CHOOSE i \in 1..Len(list) :
            list[i] = x /\ \A j \in 1..i - 1 : list[j] # x) - 1
    ELSE 0 - 1

\* a bound of a slice brought into 0..len(list)
SliceBound(list, k) ==
    IF k < 0
    THEN (IF Len(list) + k < 0 THEN 0 ELSE Len(list) + k)
    ELSE (IF k > Len(list) THEN Len(list) ELSE k)

\* list[a:b]
slice(list, a, b) ==
    SubSeq(list, SliceBound(list, a) + 1, SliceBound(list, b))

\* line52.pop(1)
pop1(list) == SubSeq(list, 1, 1) \o SubSeq(list, 3, Len(list))

RECURSIVE MinLower(_)
\* df["Lower Size (nm)"].min()
MinLower(rows) ==
    IF Len(rows) = 1 THEN rows[1].lower
    ELSE LET m == MinLower(Tail(rows))
         IN IF rows[1].lower <= m THEN rows[1].lower ELSE m

RECURSIVE MaxUpper(_)
\* df["Upper Size (nm)"].max()
MaxUpper(rows) ==
    IF Len(rows) = 1 THEN rows[1].upper
    ELSE LET m == MaxUpper(Tail(rows))
         IN IF rows[1].upper >= m THEN rows[1].upper ELSE m

\* lower_bound < float(col) < upper_bound
Sampled_Strictly(col, lower_bound, upper_bound) ==
    lower_bound < float[col] /\ float[col] < upper_bound

\* lower_bound <= float(col) <= upper_bound
Sampled(col, lower_bound, upper_bound) ==
    lower_bound <= float[col] /\ float[col] <= upper_bound

RECURSIVE HeaderDict(_)
\* for index, row in df.iterrows(): inst.metadata[row[0]] = row[1], as a
\* dict of its own: a later line replaces an earlier one of the same key
HeaderDict(header) ==
    IF header = <<>> THEN <<>>
    ELSE LET n == Len(header)
         IN (header[n].key :> header[n].value)
                @@ HeaderDict(SubSeq(header, 1, n - 1))

\* _SMPSData_from_csv(file_path, read_metadata, time_zone=time_zone): the
\* record returned or the exception raised.  Of ZoneInfo's exceptions only
\* ZoneInfoNotFoundError is caught.  The row index, time_zone and the
\* Start Time and End Time are those of SMPSData_from_csv on the rows kept.
\* dlogDp is given by the labels it is computed over, the diameter columns
\* before the size range is applied.
from_csv(csv, read_metadata, time_zone) ==
    LET zone == IF time_zone = None THEN Return(None) ELSE ZoneInfo(time_zone)
        df == SelectSeq(csv.rows,
                        LAMBDA r : /\ r.detector = NormalScan
                                   /\ r.classifier = NormalScan)
        base == SMPSData_from_csv(
                    [filename |-> csv.filename,
                     starts |-> [i \in 1..Len(df) |-> df[i].start]],
                    time_zone)
        line52 == pop1(csv.line52)
        cols == SelectSeq(csv.columns, LAMBDA c : c # DateTimeColumn)
        start_idx == index(line52, PCLabel)
        end_idx == IF index(line52, RCLabel) >= 0
                   THEN index(line52, RCLabel)
                   ELSE IF index(cols, RawDataTime) >= 0
                   THEN index(cols, RawDataTime) - 1
                   ELSE 0 - 1
        diameter_columns == slice(cols, start_idx, end_idx)
        lower_bound == MinLower(df)
        upper_bound == MaxUpper(df)
        derived == ("Start Time" :> base.metadata.Start_Time)
                   @@ ("End Time" :> base.metadata.End_Time)
                   @@ ("Number of Samples" :> Len(df))
                   @@ ("Lower Size (nm)" :> lower_bound)
                   @@ ("Upper Size (nm)" :> upper_bound)
    IN IF zone.exc \notin {"none", "ZoneInfoNotFoundError"}
       THEN Raise(zone.exc)
       ELSE IF start_idx < 0
       THEN Raise("ValueError")
       ELSE IF \E i \in 1..Len(diameter_columns) :
                   diameter_columns[i] \notin DOMAIN float
       THEN Raise("ValueError")
       ELSE Return(
              [filename |-> base.filename,
               time_zone |-> base.time_zone,
               dlogDp |-> diameter_columns,
               metadata |-> IF read_metadata
                            THEN HeaderDict(csv.header) @@ derived
                            ELSE derived,
               sample_data |->
                   [index |-> base.index,
                    columns |-> SelectSeq(diameter_columns,
                                    LAMBDA col : Sampled(col, lower_bound,
                                                         upper_bound))],
               sample_metadata |->
                   [index |-> base.index,
                    columns |-> slice(cols, 0, start_idx - 1)]])

-----------------------------------------------------------------------------
(* The state machine *)

NoCall == [made |-> FALSE, time_range |-> NoRange, output_time_zone |-> None]

NoResult == Outcome("none", "", None, ResolveError(""), <<>>)

NoOp == Done("", "none", <<>>, <<>>, <<>>)

\* a parser call: its arguments and what it returned or raised
Parsed(made, csv, read_metadata, time_zone, ret) ==
    [made |-> made, csv |-> csv, read_metadata |-> read_metadata,
     time_zone |-> time_zone, ret |-> ret]

NoParse == Parsed(FALSE, <<>>, FALSE, None, Raise(""))

\* SMPSDataset(): an empty record list
Init ==
    /\ smpsdata_list = <<>>
    /\ call = NoCall
    /\ result = NoResult
    /\ holder = "list"
    /\ op = NoOp
    /\ loader = IdleLoader
    /\ parse = NoParse

\* no read_from_dir call is under way
NotLoading == loader.pc \in {"idle", "returned"}

\* the aggregate SMPSDataset() made, no method of which has been called
Fresh ==
    /\ smpsdata_list = <<>> /\ holder = "list" /\ op = NoOp
    /\ ~call.made /\ loader = IdleLoader

\* SMPSDataset.read_from_dir(dir_path, time_zone=time_zone), called in place
\* of SMPSDataset(): _SMPSData_list_from_dir up to its for loop (lines
\* 217-227)
ListDir(dir, time_zone) ==
    /\ Fresh
    /\ loader' = Loader("loop", dir, time_zone, sort(glob(dir)), <<>>, <<>>,
                        "none")
    /\ UNCHANGED <<smpsdata_list, call, result, holder, op, parse>>

\* one turn of the for loop (lines 228-235): the next file is parsed and
\* the record appended; an exception of the parser ends the call
ParseNext ==
    /\ loader.pc = "loop" /\ loader.csv_filenames # <<>>
    /\ LET e == Head(loader.csv_filenames)
           r == ParseEntry(e, loader.time_zone)
       IN loader' =
            IF r.exc = "none"
            THEN [loader EXCEPT !.csv_filenames = Tail(@),
                                !.SMPSData_list = Append(@, r.val),
                                !.parsed = Append(@, Join(e.chars))]
            ELSE [loader EXCEPT !.pc = "raised", !.exc = r.exc,
                                !.csv_filenames = Tail(@),
                                !.parsed = Append(@, Join(e.chars))]
    /\ UNCHANGED <<smpsdata_list, call, result, holder, op, parse>>

\* the end of the loop and of _SMPSDataset_from_dir (lines 285-287):
\* inst.smpsdata_list = _SMPSDataset_from_SMPSData_list(SMPSData_list), an
\* SMPSDataset around the list
ReturnDataset ==
    /\ loader.pc = "loop" /\ loader.csv_filenames = <<>>
    /\ loader' = [loader EXCEPT !.pc = "returned"]
    /\ smpsdata_list' = loader.SMPSData_list
    /\ holder' = "SMPSDataset"
    /\ UNCHANGED <<call, result, op, parse>>

\* SMPSDataset.add_SMPSData(smps_data), the record one the parser returned.
\* The outcome of an earlier heatmap call does not describe the new list and
\* is dropped.
add_SMPSData(smps_data) ==
    /\ NotLoading
    /\ loader' = IdleLoader
    /\ Len(smpsdata_list) < MaxRecords
    /\ op' = append(smpsdata_list, holder, smps_data)
    /\ smpsdata_list' = op'.after
    /\ call' = NoCall
    /\ result' = NoResult
    /\ UNCHANGED <<holder, parse>>

\* SMPSDataset.sort_by_time()
SortByTime ==
    /\ NotLoading
    /\ loader' = IdleLoader
    /\ op' = sort_by_time(smpsdata_list, holder)
    /\ smpsdata_list' = op'.after
    /\ call' = NoCall
    /\ result' = NoResult
    /\ UNCHANGED <<holder, parse>>

\* SMPSDataset.plot_heatmap(time_range, output_dir, output_time_zone).  The
\* call leaves the aggregate as it is and its outcome follows from the list
\* and the arguments alone, so one call is taken per state of the list: a
\* second one would reach the states the first one reaches.
PlotHeatmap(time_range, output_time_zone) ==
    /\ NotLoading
    /\ loader' = IdleLoader
    /\ ~call.made
    /\ call' = [made |-> TRUE, time_range |-> time_range,
                output_time_zone |-> output_time_zone]
    /\ result' = plot_heatmap(smpsdata_list, time_range, output_time_zone)
    /\ op' = NoOp
    /\ UNCHANGED <<smpsdata_list, holder, parse>>

\* SMPSData.print_metadata(keys) on record i of the aggregate.  Printing
\* leaves the aggregate as it is; it is taken before the heatmap call.
PrintMetadata(i, keys) ==
    /\ NotLoading /\ ~call.made
    /\ i \in 1..Len(smpsdata_list)
    /\ loader' = IdleLoader
    /\ LET out == print_metadata(MetadataDict(smpsdata_list[i]), keys)
       IN op' = Done("print_metadata", out.exc, smpsdata_list, smpsdata_list,
                     out.lines)
    /\ UNCHANGED <<smpsdata_list, call, result, holder, parse>>

\* SMPSDataset.print_time_range()
PrintTimeRange ==
    /\ NotLoading /\ ~call.made
    /\ loader' = IdleLoader
    /\ LET out == print_time_range(smpsdata_list)
       IN op' = Done("print_time_range", out.exc, smpsdata_list,
                     smpsdata_list, out.lines)
    /\ UNCHANGED <<smpsdata_list, call, result, holder, parse>>

Next ==
    \/ \E smps_data \in ParsedRecords : add_SMPSData(smps_data)
    \/ SortByTime
    \/ \E i \in 1..MaxRecords, keys \in KeysArgs : PrintMetadata(i, keys)
    \/ PrintTimeRange
    \/ \E dir \in Directories, time_zone \in ParserZoneArgs :
          ListDir(dir, time_zone)
    \/ ParseNext
    \/ ReturnDataset
    \/ \E time_range \in TimeRanges, output_time_zone \in OutputZoneArgs :
          PlotHeatmap(time_range, output_time_zone)

Spec == Init /\ [][Next]_vars

\* _SMPSData_from_csv(file_path, read_metadata, time_zone=time_zone).  What
\* a call returns follows from the file and the arguments alone, so one
\* call is taken per behaviour.
ReadCsv(csv, read_metadata, time_zone) ==
    /\ ~parse.made
    /\ parse' = Parsed(TRUE, csv, read_metadata, time_zone,
                       from_csv(csv, read_metadata, time_zone))
    /\ UNCHANGED <<smpsdata_list, call, result, holder, op, loader>>

\* the records the parser returns of the short files
ShortRecords ==
    { SMPSData_from_csv(f, z) : f \in ShortFiles,
                                z \in {None, Str("UTC")} }

\* SMPSDataset.add_SMPSData(smps_data) on the aggregate taken alone
AddShort(smps_data) ==
    /\ Len(smpsdata_list) < MaxSorted
    /\ op' = append(smpsdata_list, holder, smps_data)
    /\ smpsdata_list' = op'.after
    /\ UNCHANGED <<call, result, holder, loader, parse>>

\* SMPSDataset.sort_by_time() on the aggregate taken alone
SortShort ==
    /\ op' = sort_by_time(smpsdata_list, holder)
    /\ smpsdata_list' = op'.after
    /\ UNCHANGED <<call, result, holder, loader, parse>>

SortNext ==
    \/ \E smps_data \in ShortRecords : AddShort(smps_data)
    \/ SortShort

\* the aggregate alone, built by add calls and sorted
SortSpec == Init /\ [][SortNext]_vars

ParserNext ==
    \E csv \in Csvs, read_metadata \in BOOLEAN, time_zone \in TimeZoneArgs :
        ReadCsv(csv, read_metadata, time_zone)

\* the parser alone, called on every file with every argument
ParserSpec == Init /\ [][ParserNext]_vars

-----------------------------------------------------------------------------
(* Vocabulary of the properties *)

\* the selector and zone argument of the latest call
Sel == call.time_range

TzArg == call.output_time_zone

\* the call got as far as filtering every record's rows
Filtered == call.made /\ result.at \in {"format", "returned"}

\* the call returned
Returned == call.made /\ result.at = "returned"

Zoned(dataset) == { i \in 1..Len(dataset) : dataset[i].time_zone # None }

Unzoned(dataset) == { i \in 1..Len(dataset) : dataset[i].time_zone = None }

MixedZones(dataset) == Zoned(dataset) # {} /\ Unzoned(dataset) # {}

AllNaive(dataset) == Len(dataset) > 0 /\ Zoned(dataset) = {}

AllSameZone(dataset) ==
    /\ Len(dataset) > 0
    /\ Unzoned(dataset) = {}
    /\ \A i, j \in 1..Len(dataset) :
          dataset[i].time_zone.key = dataset[j].time_zone.key

DifferingZones(dataset) ==
    /\ Unzoned(dataset) = {}
    /\ \E i, j \in 1..Len(dataset) :
          dataset[i].time_zone.key # dataset[j].time_zone.key

\* the wall-clock reading of row instant t for an observer in zone tz (its
\* own reading when no zone is in effect or the row is naive)
WallIn(t, tz) ==
    IF tz = None \/ t.tz = "naive" THEN Naive(t.s, t.us)
    ELSE Naive(t.s + ZoneOffset[tz.key], t.us)

\* 00:00:00 and 23:59:59.999999 of calendar day d, as wall-clock readings
Midnight(d) == Naive(d * Day, 0)

LastMicrosecond(d) == Naive(d * Day + 86399, 999999)

\* a selector the resolution accepts
ValidSelector(sel) ==
    \/ sel = NoRange
    \/ IsSingleDate(sel) /\ ToDatetimeError(sel) = "none"
    \/ IsRange(sel) /\ ~LessEq(sel.elems[2], sel.elems[1])

\* a (start, end) pair of two dates without time, start < end
DatesOnlyRange(sel) ==
    /\ IsRange(sel)
    /\ IsMidnight(sel.elems[1]) /\ IsMidnight(sel.elems[2])
    /\ ~LessEq(sel.elems[2], sel.elems[1])

\* every row of every record
Rows ==
    UNION { { <<i, j>> : j \in 1..Len(smpsdata_list[i].index) } :
            i \in 1..Len(smpsdata_list) }

Row(r) == smpsdata_list[r[1]].index[r[2]]

Passes(r) == result.masks[r[1]][r[2]]

-----------------------------------------------------------------------------
(* C1 *)

\* C1: for a pair of dates without time, start < end, the row predicate
\* passes exactly the rows whose zone-adjusted instant lies between 00:00:00
\* of the start day and 23:59:59.999999 of the end day, both inclusive.
C1_DateRangeCoversWholeDays ==
    (Returned /\ DatesOnlyRange(Sel)) =>
        \A r \in Rows :
            Passes(r) <=>
                /\ LessEq(Midnight(DateOf(Sel.elems[1])),
                          WallIn(Row(r), result.tz))
                /\ LessEq(WallIn(Row(r), result.tz),
                          LastMicrosecond(DateOf(Sel.elems[2])))

-----------------------------------------------------------------------------
(* C2 *)

\* C2: for a single date D with no output zone in effect (every record
\* naive) a row passes the predicate if and only if the calendar date of
\* its naive instant is D, whatever its time of day.
C2_SingleDateNaive ==
    (Filtered /\ result.branch = "single" /\ result.tz = None
        /\ AllNaive(smpsdata_list)) =>
        \A r \in Rows :
            Passes(r) <=> (Row(r).s \div Day = Sel.elems[1].s \div Day)

\* a naive aggregate filtered by a date: a row of that day away from
\* midnight passes and a row of another day does not
C2_Witness ==
    /\ Filtered /\ result.branch = "single" /\ result.tz = None
    /\ AllNaive(smpsdata_list)
    /\ IsMidnight(Sel.elems[1])
    /\ \E r \in Rows : Passes(r) /\ Row(r).s % Day # 0
    /\ \E r \in Rows : ~Passes(r)

-----------------------------------------------------------------------------
(* C3 *)

\* C3: for a single instant the bounds xlim are the whole calendar day of
\* the instant in the output zone, 00:00:00 through 23:59:59.999999, so
\* every row that passes the single-date predicate lies inside them.
C3_XlimIsWholeDay ==
    (Returned /\ result.branch = "single") =>
        /\ WallIn(result.xlim[1], result.tz) = Midnight(Sel.elems[1].s \div Day)
        /\ WallIn(result.xlim[2], result.tz)
              = LastMicrosecond(Sel.elems[1].s \div Day)
        /\ \A r \in Rows :
              Passes(r) =>
                  /\ LessEq(result.xlim[1], AdjustIndex(Row(r), result.tz))
                  /\ LessEq(AdjustIndex(Row(r), result.tz), result.xlim[2])

-----------------------------------------------------------------------------
(* C4 *)

\* C4: on an aggregate holding a zoned and an unzoned record every call
\* raises the mixed-zones configuration error, whatever the output zone and
\* the selector, and raises it in the reconciliation, before the selector is
\* looked at.
C4_MixedZonesAlwaysFatal ==
    (call.made /\ MixedZones(smpsdata_list)) =>
        /\ result.exc = "ValueError: some have a time zone"
        /\ result.at = "reconcile"

\* a mixed aggregate called with an output zone and a selector that is
\* itself invalid
C4_Witness ==
    /\ call.made /\ MixedZones(smpsdata_list)
    /\ TzArg # None
    /\ ~ValidSelector(Sel)
    /\ result.exc = "ValueError: some have a time zone"

-----------------------------------------------------------------------------
(* C5 *)

\* C5: on an aggregate of zoned records whose zones differ the
\* reconciliation raises its configuration error if and only if the caller
\* gives no output zone; with a zone given (one the zone database holds)
\* and a valid selector the resolution goes on to filter the rows, the
\* window is expressed in that zone and a row passes according to its
\* wall-clock reading in that zone.
C5_DifferingZonesNeedOutputZone ==
    (call.made /\ DifferingZones(smpsdata_list)) =>
        /\ (result.exc \in ZoneErrors) <=> (TzArg = None)
        /\ TzArg = None => result.exc = "ValueError: different time zones"
        /\ (TzArg # None /\ TzArg.key \in ZoneKeys /\ ValidSelector(Sel)) =>
              /\ Filtered
              /\ result.tz = TzArg
              /\ \A k \in 1..Len(result.xlim) : result.xlim[k].tz = TzArg.key
              /\ result.branch = "single" =>
                    \A r \in Rows :
                        Passes(r) <=>
                            (WallIn(Row(r), TzArg).s \div Day
                                = Sel.elems[1].s \div Day)
              /\ result.branch = "range" =>
                    \A r \in Rows :
                        Passes(r) <=>
                            /\ LessEq(WallIn(result.xlim[1], TzArg),
                                      WallIn(Row(r), TzArg))
                            /\ LessEq(WallIn(Row(r), TzArg),
                                      WallIn(result.xlim[2], TzArg))

\* records of two zones drawn for one date in a given zone: the same wall
\* clock day holds a row that passes and the aggregate a row that does not
C5_Witness ==
    /\ Returned /\ DifferingZones(smpsdata_list)
    /\ TzArg = Str("America_New_York")
    /\ result.branch = "single"
    /\ \E r \in Rows : Passes(r) /\ Row(r).tz = "UTC"
    /\ \E r \in Rows : ~Passes(r)

-----------------------------------------------------------------------------
(* C6 *)

-----------------------------------------------------------------------------
(* C7 *)

\* C7: when every record carries the same zone and the caller gives no
\* output zone, the shared zone is adopted and the call completes with the
\* window, row verdicts and file name of the call that names the zone.
C7_AdoptedZoneSameAsExplicit ==
    (call.made /\ AllSameZone(smpsdata_list) /\ TzArg = None) =>
        LET named == plot_heatmap(smpsdata_list, Sel,
                                  Str(smpsdata_list[1].time_zone.key))
        IN /\ result.tz.key = smpsdata_list[1].time_zone.key
           /\ named.exc = "none" =>
                 /\ result.exc = "none"
                 /\ result.xlim = named.xlim
                 /\ result.masks = named.masks
                 /\ result.fname = named.fname

-----------------------------------------------------------------------------
(* C8 *)

\* the state the classifier's definition assigns to an aggregate
ZoneStateOf(dataset) ==
    IF MixedZones(dataset) THEN {0}
    ELSE IF Len(dataset) = 0 THEN {2, 0 - 1}
    ELSE IF Zoned(dataset) = {} THEN {0 - 1}
    ELSE IF AllSameZone(dataset) THEN {2}
    ELSE {1}

\* C8: for every aggregate, the empty one included, the classifier returns
\* one of its four states, the one its definition assigns, and never fails.
C8_ClassifierTotal ==
    call.made =>
        LET st == check_SMPSDataset_time_zone(smpsdata_list)
        IN /\ st.exc = "none"
           /\ st.val \in ZoneStateOf(smpsdata_list)
           /\ result.exc # "IndexError"

-----------------------------------------------------------------------------
(* C9 *)

\* C9: every (start, end) pair with start >= end, two equal dates included,
\* ends in a configuration error before any row is filtered; a pair with
\* start < end never raises the start-before-end error.
C9_StartNotBeforeEndFatal ==
    (call.made /\ IsRange(Sel)) =>
        IF LessEq(Sel.elems[2], Sel.elems[1])
        THEN /\ result.exc \in ZoneErrors
                    \cup {"ValueError: start must be earlier than end"}
             /\ result.masks = <<>>
        ELSE result.exc # "ValueError: start must be earlier than end"

-----------------------------------------------------------------------------
(* C10 *)

\* a single instant: a date or a date-time, as text or as an object
SingleInstant(sel) ==
    sel.py \in {"str", "Timestamp", "datetime", "date"} /\ Len(sel.elems) = 1

\* neither None, nor a single instant, nor a sequence of two
OtherShape(sel) ==
    /\ sel # NoRange
    /\ sel.py \in {"int", "DateOffset", "tuple", "list"}
    /\ ~IsRange(sel)

\* C10: once the zones are reconciled, every single instant, a date without
\* time as much as a date-time, is taken by the single-instant rule, and
\* every selector of another shape raises the selector's configuration
\* error.
C10_SelectorDispatch ==
    (call.made /\ result.at # "reconcile"
        /\ (result.tz # None => result.tz.key \in ZoneKeys)) =>
        /\ SingleInstant(Sel) => result.branch = "single"
        /\ OtherShape(Sel) =>
              result.exc = "ValueError: time_range must be None, date or pair"

-----------------------------------------------------------------------------
(* Tick granularity (lines 305-362) *)

\* the span end minus start of the resolved bounds, in microseconds-exact
\* comparison with a number of days: Span < d days, Span = d days
SpanBelow(d) ==
    LET a == result.xlim[1]
        b == result.xlim[2]
    IN b.s - a.s < d * Day \/ (b.s - a.s = d * Day /\ b.us < a.us)

SpanExactly(d) ==
    LET a == result.xlim[1]
        b == result.xlim[2]
    IN b.s - a.s = d * Day /\ b.us = a.us

SpanAtMost(d) == SpanBelow(d) \/ SpanExactly(d)

HasBounds == Returned /\ result.xlim # <<>>

-----------------------------------------------------------------------------
(* Verdicts under an output zone (mask_func, lines 174-183 and 222-231) *)

\* an output zone is in effect and every record's rows were filtered
FilteredInZone == Filtered /\ result.tz # None

\* whether wall-clock reading w satisfies the selector of the call: the day
\* of a single date, the whole days of a pair of dates, the instants of a
\* pair with a time of day
SatisfiesSelector(w) ==
    IF result.branch = "single"
    THEN w.s \div Day = Sel.elems[1].s \div Day
    ELSE IF result.branch = "range" /\ DatesOnlyRange(Sel)
    THEN /\ LessEq(Midnight(DateOf(Sel.elems[1])), w)
         /\ LessEq(w, LastMicrosecond(DateOf(Sel.elems[2])))
    ELSE IF result.branch = "range"
    THEN LessEq(Sel.elems[1], w) /\ LessEq(w, Sel.elems[2])
    ELSE TRUE

\* two rows that denote the same absolute instant
SameInstant(r1, r2) == Row(r1).s = Row(r2).s /\ Row(r1).us = Row(r2).us

\* C12: with an output zone in effect a row passes if and only if its
\* instant, read on the wall clock of that zone, satisfies the selector, and
\* two rows that denote the same instant get the same verdict whatever the
\* zones of their records.
C12_VerdictFollowsInstantInZone ==
    (Returned /\ result.tz # None) =>
        /\ \A r \in Rows :
              Passes(r) <=> SatisfiesSelector(WallIn(Row(r), result.tz))
        /\ \A r1, r2 \in Rows :
              SameInstant(r1, r2) => (Passes(r1) <=> Passes(r2))

\* the same statement away from pairs of dates without time, whose window
\* DayStart and DayEnd set
VerdictFollowsInstantInZoneButDateRanges ==
    (FilteredInZone /\ ~DatesOnlyRange(Sel)) =>
        /\ \A r \in Rows :
              Passes(r) <=> SatisfiesSelector(WallIn(Row(r), result.tz))
        /\ \A r1, r2 \in Rows :
              SameInstant(r1, r2) => (Passes(r1) <=> Passes(r2))

\* for a pair of dates the verdict still follows the instant alone
SameInstantSameVerdict ==
    FilteredInZone =>
        \A r1, r2 \in Rows :
            SameInstant(r1, r2) => (Passes(r1) <=> Passes(r2))

\* rows of records in two zones that denote one instant, both passing
SameInstantTwoZonesReached ==
    /\ FilteredInZone
    /\ \E r1, r2 \in Rows :
          /\ SameInstant(r1, r2) /\ Row(r1).tz # Row(r2).tz
          /\ Passes(r1) /\ Passes(r2)

-----------------------------------------------------------------------------
(* sort_by_time: order, stability, idempotence, overlap warnings *)

\* the latest call was sort_by_time, on an aggregate made by add calls
Sorted == op.name = "sort_by_time" /\ holder = "list"

\* the one-to-one maps of the positions of a list of n records
Perms(n) ==
    { p \in [1..n -> 1..n] : \A i, j \in 1..n : p[i] = p[j] => i = j }

SameStart(x, y) ==
    StartTime(x).s = StartTime(y).s /\ StartTime(x).us = StartTime(y).us

\* after holds the records of before, each once, and records with equal
\* Start Time in the order they had in before
StablePermutation(before, after) ==
    /\ Len(after) = Len(before)
    /\ \E p \in Perms(Len(before)) :
          /\ \A i \in 1..Len(after) : after[i] = before[p[i]]
          /\ \A i, j \in 1..Len(after) :
                (i < j /\ SameStart(after[i], after[j])) => p[i] < p[j]

\* Start Time does not decrease along the list
NonDecreasing(list) ==
    \A i \in 1..Len(list) - 1 :
        /\ Comparable(StartTime(list[i]), StartTime(list[i + 1]))
        /\ LessEq(StartTime(list[i]), StartTime(list[i + 1]))

\* C13: after sort_by_time on an aggregate built by add calls the list is a
\* permutation of the list before, Start Time is non-decreasing along it
\* and records with equal Start Time keep their relative order.
C13_SortedStablePermutation ==
    Sorted =>
        /\ StablePermutation(op.before, smpsdata_list)
        /\ NonDecreasing(smpsdata_list)

\* the same statement for aggregates whose records are all zoned or all
\* naive
SortedStablePermutationWhereSortable ==
    (Sorted /\ Sortable(op.before)) =>
        /\ op.exc = "none"
        /\ StablePermutation(op.before, smpsdata_list)
        /\ NonDecreasing(smpsdata_list)

\* a sort of two different records of equal Start Time
SortedWithTieReached ==
    /\ Sorted /\ op.exc = "none"
    /\ \E i \in 1..Len(smpsdata_list) - 1 :
          /\ SameStart(smpsdata_list[i], smpsdata_list[i + 1])
          /\ smpsdata_list[i] # smpsdata_list[i + 1]

\* C14: a sort_by_time that follows a sort_by_time leaves the order of the
\* list as it is, and so does sort_by_time on fewer than 2 records.
C14_SortIdempotent ==
    [][(/\ op'.name = "sort_by_time"
        /\ op.name = "sort_by_time" \/ Len(smpsdata_list) < 2)
           => smpsdata_list' = smpsdata_list]_vars

\* sort_by_time ran on a list in sorted order, two of whose records start
\* at the same time
C14_Witness ==
    /\ Sorted /\ op.exc = "none" /\ op.before = smpsdata_list
    /\ Len(smpsdata_list) >= 2
    /\ \E i \in 1..Len(smpsdata_list) - 1 :
          /\ SameStart(smpsdata_list[i], smpsdata_list[i + 1])
          /\ smpsdata_list[i] # smpsdata_list[i + 1]

\* the adjacent pairs of the list that overlap, by the position of the
\* first of the two
OverlapPairs(list) ==
    { i \in 1..Len(list) - 1 :
        /\ Comparable(StartTime(list[i + 1]), EndTime(list[i]))
        /\ LessEq(StartTime(list[i + 1]), EndTime(list[i])) }

\* warnings holds one warning per overlapping adjacent pair, in list order,
\* naming the two files, and nothing else
OneWarningPerOverlap(list, warnings) ==
    /\ Len(warnings) = Cardinality(OverlapPairs(list))
    /\ \E f \in [1..Len(warnings) -> OverlapPairs(list)] :
          /\ \A j, k \in 1..Len(warnings) : j < k => f[j] < f[k]
          /\ \A j \in 1..Len(warnings) :
                warnings[j] = [prev |-> list[f[j]].filename,
                               curr |-> list[f[j] + 1].filename]

\* C15: a sort_by_time that sorted emits one overlap warning naming both
\* files for every adjacent pair with prev End Time >= curr Start Time and
\* none for any other pair; an overlap never makes it raise, and every
\* record stays in the list.
C15_OneWarningPerOverlap ==
    Sorted =>
        /\ op.exc = "none" =>
              OneWarningPerOverlap(smpsdata_list, op.warnings)
        /\ (Len(op.before) < 2 \/ Sortable(op.before)) => op.exc = "none"
        /\ StablePermutation(op.before, smpsdata_list)

\* a sorted list of three records with a pair that overlaps by equality of
\* End Time and Start Time, warned of, and a pair that does not overlap
C15_Witness ==
    /\ Sorted /\ op.exc = "none" /\ Len(smpsdata_list) >= 2
    /\ \E i \in 1..Len(smpsdata_list) - 1 :
          /\ EndTime(smpsdata_list[i]).s = StartTime(smpsdata_list[i + 1]).s
          /\ i \in OverlapPairs(smpsdata_list)
    /\ Len(op.warnings) = 1

-----------------------------------------------------------------------------
(* The aggregate read_from_dir returns *)

\* C16: the aggregate read_from_dir returns holds its records in a list, as
\* the aggregate add calls build does: add_SMPSData appends to it and
\* sort_by_time reorders it, with the results they have on a list.
C16_LoadedAggregateIsList ==
    /\ loader.pc = "returned" => holder = "list"
    /\ op.name = "add_SMPSData" =>
          op.exc = "none" /\ Len(smpsdata_list) = Len(op.before) + 1
    /\ op.name = "sort_by_time" => op = sort_by_time(op.before, "list")

\* add_SMPSData raised on an aggregate read_from_dir returned
AddOnLoadedRaised ==
    /\ holder = "SMPSDataset" /\ op.name = "add_SMPSData"
    /\ op.exc = "AttributeError"

\* sort_by_time raised on two records read_from_dir returned, which a list
\* would have had reordered
SortOnLoadedRaised ==
    /\ holder = "SMPSDataset" /\ op.name = "sort_by_time"
    /\ op.exc = "AttributeError"
    /\ sort_by_time(op.before, "list").after # op.before

-----------------------------------------------------------------------------
(* The directory loader: which entries, in which order *)

\* whether the characters of part occur in chars, one after the other
Contains(chars, part) ==
    \E i \in 1..Len(chars) - Len(part) + 1 :
        SubSeq(chars, i, i + Len(part) - 1) = part

EndsWith(chars, part) ==
    /\ Len(chars) >= Len(part)
    /\ SubSeq(chars, Len(chars) - Len(part) + 1, Len(chars)) = part

\* the files directly inside dir whose name contains "SMPS" and ends with
\* ".csv"
NamedFiles(dir) ==
    { e \in dir : /\ e.parent = "" /\ e.kind = "file"
                  /\ Contains(e.chars, SMPS) /\ EndsWith(e.chars, DotCsv) }

\* the entries directly inside dir, files or directories, whose name does
\* not begin with a dot, contains "SMPS" and ends with ".csv"
NamedVisibleEntries(dir) ==
    { e \in dir : /\ e.parent = "" /\ e.chars[1] # "."
                  /\ Contains(e.chars, SMPS) /\ EndsWith(e.chars, DotCsv) }

\* the names of a set of entries, in lexicographic order
RECURSIVE NamesInOrder(_)
NamesInOrder(entries) ==
    IF entries = {} THEN <<>>
    ELSE LET last == CHOOSE e \in entries :
                         \A o \in entries : ~StrLess(e.chars, o.chars)
         IN Append(NamesInOrder(entries \ {last}), Join(last.chars))

IsPrefix(a, b) == Len(a) <= Len(b) /\ a = SubSeq(b, 1, Len(a))

\* The loader called the parser on the first files of the list names, in
\* that order; if it returned it did so on all of them and the aggregate
\* holds their records in that order; if it raised, the last of them is an
\* entry the parser raises on and nothing was returned.
ParsedInOrder(names) ==
    /\ loader.pc # "idle" => IsPrefix(loader.parsed, names)
    /\ loader.pc = "loop" =>
          /\ Len(loader.SMPSData_list) = Len(loader.parsed)
          /\ smpsdata_list = <<>>
    /\ loader.pc = "returned" =>
          /\ loader.parsed = names
          /\ Len(smpsdata_list) = Len(names)
          /\ \A i \in 1..Len(names) : smpsdata_list[i].filename = names[i]
    /\ loader.pc = "raised" =>
          /\ loader.parsed # <<>>
          /\ \E e \in loader.dir :
                /\ Join(e.chars) = loader.parsed[Len(loader.parsed)]
                /\ e.parent = ""
                /\ ParseEntry(e, loader.time_zone).exc = loader.exc
                /\ loader.exc # "none"
          /\ smpsdata_list = <<>> /\ holder = "list"

\* every step of the loader calls the parser on at most one file, and once
\* the call has raised nothing more happens
OneAtATime ==
    [][/\ Len(loader'.parsed) <= Len(loader.parsed) + 1 \/ NotLoading
       /\ loader.pc # "raised"]_vars

\* C17: the loader parses exactly the files directly inside the directory
\* whose name contains "SMPS" and ends with ".csv", one at a time in
\* lexicographic order of the names; what it returns holds one record per
\* such file in that order; when a parse raises the error propagates, no
\* later file is parsed and nothing is returned.
C17_ParsesNamedFiles ==
    [](loader.pc # "idle" =>
          ParsedInOrder(NamesInOrder(NamedFiles(loader.dir))))
        /\ OneAtATime

\* C17 amended: the same of the entries, files or directories, whose name
\* does not begin with a dot.
C17_ParsesNamedVisibleEntries ==
    [](loader.pc # "idle" =>
          ParsedInOrder(NamesInOrder(NamedVisibleEntries(loader.dir))))
        /\ OneAtATime

\* the parse of the second of three matching files raised and the third
\* was not parsed
C17_Witness ==
    /\ loader.pc = "raised" /\ Len(loader.parsed) = 2
    /\ loader.csv_filenames # <<>>
    /\ loader.exc = "KeyError"

\* a directory with a hidden export was loaded and the visible one returned
HiddenSkipped ==
    /\ loader.pc = "returned" /\ Len(smpsdata_list) = 1
    /\ \E e \in loader.dir : e.chars[1] = "." /\ fnmatch(e.chars)

-----------------------------------------------------------------------------
(* The parser: row counts *)

\* the parser returned a record
Parsed_OK == parse.made /\ parse.ret.exc = "none"

Record == parse.ret.val

\* the source rows both of whose status flags read "Normal Scan"
NormalRows ==
    { i \in 1..Len(parse.csv.rows) :
        /\ parse.csv.rows[i].detector = NormalScan
        /\ parse.csv.rows[i].classifier = NormalScan }

\* C18: for every record the parser returns, with read_metadata true or
\* false and whatever the header block holds, metadata["Number of Samples"]
\* is the row count of sample_table, which is the row count of
\* scan_metadata_table and the number of source rows with both status flags
\* normal, and the two tables have the same row index.
C18_NumberOfSamplesIsRowCount ==
    Parsed_OK =>
        /\ Record.metadata["Number of Samples"] = Len(Record.sample_data.index)
        /\ Len(Record.sample_data.index) = Len(Record.sample_metadata.index)
        /\ Len(Record.sample_data.index) = Cardinality(NormalRows)
        /\ Record.sample_data.index = Record.sample_metadata.index

\* the header block has a line of the given key
HeaderHas(key) ==
    \E i \in 1..Len(parse.csv.header) : parse.csv.header[i].key = key

\* the same statement for the calls that do not read a header block with a
\* "Number of Samples" line
NumberOfSamplesIsRowCountUnlessInHeader ==
    (Parsed_OK /\ ~(parse.read_metadata /\ HeaderHas("Number of Samples"))) =>
        /\ Record.metadata["Number of Samples"] = Len(Record.sample_data.index)
        /\ Len(Record.sample_data.index) = Len(Record.sample_metadata.index)
        /\ Len(Record.sample_data.index) = Cardinality(NormalRows)
        /\ Record.sample_data.index = Record.sample_metadata.index

\* a file with rows of both kinds was parsed and the rows dropped counted
\* out
RowsDroppedReached ==
    /\ Parsed_OK /\ Cardinality(NormalRows) < Len(parse.csv.rows)
    /\ Record.metadata["Number of Samples"] = Cardinality(NormalRows)

-----------------------------------------------------------------------------
(* The parser: diameter columns *)

\* Lower Size and Upper Size over the rows kept
KeptLowers == { parse.csv.rows[i].lower : i \in NormalRows }

KeptUppers == { parse.csv.rows[i].upper : i \in NormalRows }

\* the identified diameter labels whose value lies between the least Lower
\* Size and the greatest Upper Size of the rows kept, bounds included
LabelsInSizeRange ==
    { l \in { Record.dlogDp[i] : i \in 1..Len(Record.dlogDp) } :
        /\ \E lo \in KeptLowers :
              (\A o \in KeptLowers : lo <= o) /\ lo <= float[l]
        /\ \E hi \in KeptUppers :
              (\A o \in KeptUppers : o <= hi) /\ float[l] <= hi }

\* C19: the diameter columns of sample_table are exactly the identified
\* diameter labels whose value lies in [min Lower Size, max Upper Size] of
\* the rows kept, in their ascending order, and a contiguous run of the
\* file's diameter labels.
C19_DiameterColumnsInSizeRange ==
    Parsed_OK =>
        LET columns == Record.sample_data.columns
        IN /\ { columns[i] : i \in 1..Len(columns) } = LabelsInSizeRange
           /\ \A i \in 1..Len(columns) - 1 :
                 float[columns[i]] < float[columns[i + 1]]
           /\ \E a \in 1..Len(DiameterLabels) + 1, b \in 0..Len(DiameterLabels) :
                 columns = SubSeq(DiameterLabels, a, b)

\* a label equal to the least Lower Size was kept, and a label above the
\* greatest Upper Size of the kept rows dropped though a row with an error
\* flag reaches it
C19_Witness ==
    /\ Parsed_OK
    /\ Record.dlogDp = DiameterLabels
    /\ Record.sample_data.columns = <<"10", "20", "30">>
    /\ KeptLowers = {100} /\ KeptUppers = {300}
    /\ \E i \in 1..Len(parse.csv.rows) : parse.csv.rows[i].upper = 400

-----------------------------------------------------------------------------
(* The parser: a time_zone name that cannot be resolved *)

\* the call was given a name the zone database does not resolve
UnresolvableName ==
    /\ parse.made /\ parse.time_zone.py = "str"
    /\ parse.time_zone.key \notin ZoneKeys

\* what the parser returns on the same file with no time_zone
WithoutZone == from_csv(parse.csv, parse.read_metadata, None)

\* C20: given a time_zone name that cannot be resolved the parser does not
\* raise and returns the record it returns with no time_zone: time_zone
\* None, the row index naive, sample_table and metadata the same.
C20_UnresolvableNameAsNoZone ==
    UnresolvableName =>
        /\ parse.ret.exc = WithoutZone.exc
        /\ parse.ret.exc = "none" =>
              /\ Record = WithoutZone.val
              /\ Record.time_zone = None
              /\ \A i \in 1..Len(Record.sample_data.index) :
                    Record.sample_data.index[i].tz = "naive"

\* the same statement for the names ZoneInfo looks up and does not find
UnknownNameAsNoZone ==
    (UnresolvableName /\ parse.time_zone.key = UnknownKey) =>
        /\ parse.ret.exc = WithoutZone.exc
        /\ parse.ret.exc = "none" =>
              /\ Record = WithoutZone.val
              /\ Record.time_zone = None
              /\ \A i \in 1..Len(Record.sample_data.index) :
                    Record.sample_data.index[i].tz = "naive"

\* a record was returned for a name not found
UnknownNameReached ==
    /\ UnresolvableName /\ parse.time_zone.key = UnknownKey
    /\ parse.ret.exc = "none"

-----------------------------------------------------------------------------
(* The parser: the range of the diameter columns *)

\* the data columns of the file parsed: those of the table less the
\* timestamp column
DataColumns ==
    SelectSeq(parse.csv.columns, LAMBDA c : c # DateTimeColumn)

\* line 52 of the file parsed, position for position over the data columns
Line52Labels ==
    LET t == CHOOSE i \in 1..Len(parse.csv.columns) :
                 parse.csv.columns[i] = DateTimeColumn
    IN SubSeq(parse.csv.line52, 1, t - 1)
           \o SubSeq(parse.csv.line52, t + 1, Len(parse.csv.line52))

\* the positions, counted from 1, at which a list holds x
Positions(list, x) == { i \in 1..Len(list) : list[i] = x }

\* the first of a set of positions
First(S) == CHOOSE i \in S : \A j \in S : i <= j

\* the raw concentration label is on line 52
HasRawConcentration == Positions(Line52Labels, RCLabel) # {}

\* the raw time-series marker is among the data columns
HasRawDataTime == Positions(DataColumns, RawDataTime) # {}

\* The end boundary of the diameter columns, the position of the column
\* after the last of them, by the first rule that applies; one past the
\* last data column when neither marker exists.
EndBoundary ==
    IF HasRawConcentration THEN First(Positions(Line52Labels, RCLabel))
    ELSE IF HasRawDataTime
    THEN First(Positions(DataColumns, RawDataTime)) - 1
    ELSE Len(DataColumns) + 1

\* the data columns from the particle concentration label up to the end
\* boundary
FullColumnRange ==
    SubSeq(DataColumns, First(Positions(Line52Labels, PCLabel)),
           EndBoundary - 1)

\* C21: the full range of diameter columns the parser finds starts at the
\* position of the particle concentration label and ends just before the
\* raw concentration label if line 52 has it, else at the position of the
\* raw time-series marker minus one, else runs through the last data
\* column, that column included.
C21_ColumnRangeByFirstRule ==
    Parsed_OK => Record.dlogDp = FullColumnRange

\* the same statement for the files that have one of the two markers
ColumnRangeByMarker ==
    (Parsed_OK /\ (HasRawConcentration \/ HasRawDataTime)) =>
        Record.dlogDp = FullColumnRange

\* with neither marker the range found stops one column short of the last
ColumnRangeWithoutMarker ==
    (Parsed_OK /\ ~HasRawConcentration /\ ~HasRawDataTime) =>
        /\ Record.dlogDp \o <<DataColumns[Len(DataColumns)]>> = FullColumnRange
        /\ Record.dlogDp # <<>>

\* a file with the raw time-series marker and no raw concentration label
\* was parsed
RawDataTimeRuleReached ==
    Parsed_OK /\ ~HasRawConcentration /\ HasRawDataTime

-----------------------------------------------------------------------------
(* The parser: the columns of scan_metadata_table *)

\* the position among the data columns of the first diameter column
StartBoundary == First(Positions(Line52Labels, PCLabel))

\* C22: scan_metadata_table holds every data column, the timestamp apart,
\* before the first diameter column and none at or after it, so that with
\* the diameter columns found it covers every column up to the end
\* boundary, none left out.
C22_ScanMetadataUpToDiameters ==
    Parsed_OK =>
        /\ Record.sample_metadata.columns
              = SubSeq(DataColumns, 1, StartBoundary - 1)
        /\ Record.sample_metadata.columns \o Record.dlogDp
              = SubSeq(DataColumns, 1, EndBoundary - 1)

\* what holds of it: no column at or after the first diameter column, and
\* every column before it but the one next to it
ScanMetadataOneShort ==
    Parsed_OK =>
        /\ Record.sample_metadata.columns
              = SubSeq(DataColumns, 1, StartBoundary - 2)
        /\ DataColumns[StartBoundary - 1] = "Upper Size (nm)"
        /\ StartBoundary > 2

-----------------------------------------------------------------------------
(* Printing metadata *)

\* keys arguments that are a list or a tuple holding keys
ListsOfKeys == { keys \in KeysArgs : keys.py \in {"list", "tuple"}
                                     /\ keys.elems # <<>> }

\* for each key in turn its value where the record has the key, a
\* not-found line where it has not
LinesFor(smps_data, elems) ==
    [j \in 1..Len(elems) |->
        IF elems[j] = "Start Time"
        THEN ValueLine(elems[j], smps_data.metadata.Start_Time)
        ELSE IF elems[j] = "End Time"
        THEN ValueLine(elems[j], smps_data.metadata.End_Time)
        ELSE IF elems[j] = "Number of Samples"
        THEN ValueLine(elems[j], smps_data.metadata.Number_of_Samples)
        ELSE NotFoundLine(elems[j])]

RECURSIVE TimeRangeLines(_, _)
\* for the records from i on, in list order: the file line, Start Time,
\* End Time and Number of Samples
TimeRangeLines(list, i) ==
    IF i > Len(list) THEN <<>>
    ELSE <<FileLine(i, list[i])>> \o LinesFor(list[i], TimeRangeKeys)
             \o TimeRangeLines(list, i + 1)

\* C23: print_metadata with a list or tuple of string keys prints the
\* value of each key the metadata has and a not-found line for each it has
\* not, and returns; print_time_range on any aggregate prints Start Time,
\* End Time and Number of Samples of every record in list order.
C23_PrintsKeysAndTimeRange ==
    [][/\ \A i \in 1..MaxRecords, keys \in ListsOfKeys :
             PrintMetadata(i, keys) =>
                /\ op'.exc = "none"
                /\ op'.warnings = LinesFor(smpsdata_list[i], keys.elems)
       /\ PrintTimeRange =>
             /\ op'.exc = "none"
             /\ op'.warnings = TimeRangeLines(smpsdata_list, 1)]_vars

\* what holds: a single key given as a str is printed as claimed, and
\* print_time_range returns on the empty aggregate, having printed nothing
PrintsStrKeyAndEmptyTimeRange ==
    [][/\ \A i \in 1..MaxRecords, keys \in KeysArgs :
             (keys.py = "str" /\ PrintMetadata(i, keys)) =>
                /\ op'.exc = "none"
                /\ op'.warnings = LinesFor(smpsdata_list[i], keys.elems)
       /\ (PrintTimeRange /\ smpsdata_list = <<>>) =>
             op'.exc = "none" /\ op'.warnings = <<>>]_vars

\* a list or tuple of keys, and so print_time_range on an aggregate with a
\* record, ends in a TypeError before a value is printed
ListOfKeysRaises ==
    [][/\ \A i \in 1..MaxRecords, keys \in ListsOfKeys :
             PrintMetadata(i, keys) =>
                op'.exc = "TypeError" /\ op'.warnings = <<>>
       /\ (PrintTimeRange /\ smpsdata_list # <<>>) =>
             /\ op'.exc = "TypeError"
             /\ op'.warnings = <<FileLine(1, smpsdata_list[1])>>]_vars

\* print_time_range was called on an aggregate of two records
TimeRangeOfTwoPrinted ==
    op.name = "print_time_range" /\ Len(smpsdata_list) = 2

-----------------------------------------------------------------------------
(* sort_by_time: no warning, no overlap *)

\* the time ranges [Start Time, End Time] of two records have no instant
\* in common
Disjoint(a, b) ==
    \/ Less(EndTime(a), StartTime(b))
    \/ Less(EndTime(b), StartTime(a))

\* C24: after a sort_by_time that returned on an aggregate of parsed
\* records, each with Start Time <= End Time, and emitted no overlap
\* warning, the time ranges of every two distinct records, adjacent or
\* not, are disjoint.
C24_NoWarningNoOverlap ==
    /\ \A i \in 1..Len(smpsdata_list) :
          LessEq(StartTime(smpsdata_list[i]), EndTime(smpsdata_list[i]))
    /\ (Sorted /\ op.exc = "none" /\ op.warnings = <<>>) =>
          \A i, j \in 1..Len(smpsdata_list) :
              i # j => Disjoint(smpsdata_list[i], smpsdata_list[j])

\* three records in another order were sorted and no warning emitted
C24_Witness ==
    /\ Sorted /\ op.exc = "none" /\ op.warnings = <<>>
    /\ Len(smpsdata_list) = 3
    /\ op.before # smpsdata_list

-----------------------------------------------------------------------------
(* time_zone and the row index *)

\* the row index of the record carries no zone
NaiveIndex(smps_data) ==
    \A i \in 1..Len(smps_data.index) : smps_data.index[i].tz = "naive"

\* every row instant of the record carries the record's zone
AwareIndex(smps_data) ==
    /\ smps_data.time_zone # None
    /\ \A i \in 1..Len(smps_data.index) :
          smps_data.index[i].tz = smps_data.time_zone.key

\* the records the parser has returned: those of the aggregate and those
\* of a read_from_dir under way
RecordsReturned ==
    { smpsdata_list[i] : i \in 1..Len(smpsdata_list) }
        \cup { loader.SMPSData_list[i] : i \in 1..Len(loader.SMPSData_list) }

\* the heatmap call passed the reconciliation with an output zone in effect
ReconciledWithZone ==
    /\ call.made /\ result.at \in {"resolve", "filter", "format", "returned"}
    /\ result.tz # None

\* C25: every record the parser returned has time_zone None exactly when
\* its row index is zone-naive; so whenever the reconciliation succeeds
\* with an output zone in effect every record filtered is zone-aware and
\* no index is localized by the predicate.
C25_ZoneNoneIffNaiveIndex ==
    /\ \A smps_data \in RecordsReturned :
          /\ smps_data.time_zone = None <=> NaiveIndex(smps_data)
          /\ smps_data.time_zone # None => AwareIndex(smps_data)
    /\ ReconciledWithZone =>
          \A i \in 1..Len(smpsdata_list) :
              /\ AwareIndex(smpsdata_list[i])
              /\ \A j \in 1..Len(smpsdata_list[i].index) :
                    AdjustIndex(smpsdata_list[i].index[j], result.tz)
                        = tz_convert(smpsdata_list[i].index[j], result.tz.key)

\* two records parsed with different zones were filtered in an output zone
\* given by the caller
C25_Witness ==
    /\ ReconciledWithZone /\ result.at = "returned"
    /\ call.output_time_zone # None
    /\ Len(smpsdata_list) = 2
    /\ smpsdata_list[1].time_zone # smpsdata_list[2].time_zone
    /\ \E j \in 1..Len(smpsdata_list[2].index) : result.masks[2][j]

\* the same of the whole-file parser: time_zone None exactly when the
\* index of both tables is naive
ParsedZoneNoneIffNaiveIndex ==
    Parsed_OK =>
        /\ Record.time_zone = None <=> NaiveIndex(Record.sample_data)
        /\ Record.time_zone # None =>
              \A i \in 1..Len(Record.sample_data.index) :
                  Record.sample_data.index[i].tz = Record.time_zone.key
        /\ Record.sample_metadata.index = Record.sample_data.index

====
